---- MODULE Spec2Model ----
(***************************************************************************)
(* Vimeo -> Panda mirror.  Two walkers share one design:                   *)
(*   "index"  src/src/index.js              (resolve-or-create folders)    *)
(*   "links"  src/src/getVimeoPandaLinks.js (match-only, read-only Target) *)
(* Strings the code parses are sequences of one-character strings, so the  *)
(* regular expression of formatVimeoUrl is computed, not assumed.          *)
(***************************************************************************)
EXTENDS Integers, Sequences, FiniteSets, TLC

VARIABLES
  path,         \* formatVimeoUrl: the identifier handed to it
  fmtOut,       \* formatVimeoUrl: what the call produced
  store,        \* table vimeo_panda_videos: a set of rows
  dbClock,      \* CURRENT_TIMESTAMP of the database, a logical clock
  dbLog,        \* history: every INSERT/UPSERT executed, in order
  pandaFolders, \* Target platform: the list GET /folders answers
  pandaVideos,  \* Target platform: its videos
  fq,           \* findPandaFolder: the (name, parentFolderId) asked for
  fOut,         \* findPandaFolder: what the call returned
  cl,           \* request client: the call in progress
  clk,          \* request client: elapsed time in ms
  hist,         \* request client history: each attempt, its reply and its time
  prog,         \* which walker runs: "index" or "links"
  run,          \* the number of the current run of the walker
  pc,           \* walker state: ListingFolderPage, VisitingFolder, CreatingFolder,
                \*   ListingVideoPage, Reconciling, Done, Aborted
  stack,        \* the active processFolder calls, innermost last
  vid,          \* the active processVideosInFolder call
  folderMap,    \* index.js folderMap: Source folder uri -> Target folder id
  faults,       \* remote calls that failed so far
  last,         \* history: the latest step of the walker and what it did
  ended,        \* history: how each earlier run ended, "Done" or "Aborted"
  conn,         \* the mysql pool of the running script: "open" or "closed"
  sync          \* syncPandaVideoIds: the pass in progress

fmtVars == <<path, fmtOut>>
dbVars == <<store, dbClock, dbLog>>
resVars == <<fq, fOut>>
clVars == <<cl, clk, hist>>
walkVars == <<prog, run, pc, stack, vid, folderMap, faults, last, ended, conn>>
syncVars == <<sync>>
tgtVars == <<pandaFolders, pandaVideos>>
notFormat == <<dbVars, tgtVars, resVars, clVars, walkVars, syncVars>>
notDb == <<fmtVars, tgtVars, resVars, clVars, walkVars, syncVars>>
notResolve == <<fmtVars, dbVars, clVars, walkVars, pandaVideos, syncVars>>
notClient == <<fmtVars, dbVars, tgtVars, resVars, walkVars, syncVars>>
notWalk == <<fmtVars, resVars, clVars, pandaVideos, syncVars>>
notSync == <<fmtVars, resVars, clVars, walkVars, pandaFolders>>
vars == <<path, fmtOut, store, dbClock, dbLog, pandaFolders, pandaVideos, fq, fOut, cl, clk, hist,
          prog, run, pc, stack, vid, folderMap, faults, last, ended, conn, sync>>

\* ------------------------------------------------------------------ bounds
MaxIdLen == 3
MaxWrites == 2
MaxFolders == 2
MaxRuns == 2
MaxFaults == 1

\* ------------------------------------------------------------ JS sentinels
Null == "null"
Undefined == "undefined"
None == "none"

\* --------------------------------------------------------- formatVimeoUrl
Digits == {"0", "7"}
Chars == Digits \cup {"a", "/"}

VideosPrefix == <<"/", "v", "i", "d", "e", "o", "s", "/">>
PlayerPrefix == <<"h", "t", "t", "p", "s", ":", "/", "/", "p", "l", "a", "y", "e", "r", ".",
                  "v", "i", "m", "e", "o", ".", "c", "o", "m", "/", "v", "i", "d", "e", "o", "/">>

\* ^ followed by a literal: the literal must sit at position 1.
StartsWith(s, lit) == Len(s) >= Len(lit) /\ SubSeq(s, 1, Len(lit)) = lit

\* \d+ is greedy: the number of digits from position i on.
RECURSIVE DigitRun(_, _)
DigitRun(s, i) == IF i <= Len(s) /\ s[i] \in Digits THEN 1 + DigitRun(s, i + 1) ELSE 0

\* A faulty variant, for comparison: the pattern without its end anchor, /^\/videos\/(\d+)/.
VimeoMatchUnanchored(s) ==
  IF ~StartsWith(s, VideosPrefix) THEN <<>>
  ELSE LET n == DigitRun(s, Len(VideosPrefix) + 1)
       IN IF n >= 1
            THEN SubSeq(s, Len(VideosPrefix) + 1, Len(VideosPrefix) + n)
            ELSE <<>>

\* path.match(/^\/videos\/(\d+)$/): the captured group, <<>> when there is no match
\* (the group itself is never empty).
VimeoMatch(s) ==
  IF ~StartsWith(s, VideosPrefix) THEN <<>>
  ELSE LET n == DigitRun(s, Len(VideosPrefix) + 1)
       IN IF n >= 1 /\ Len(VideosPrefix) + n = Len(s)
            THEN SubSeq(s, Len(VideosPrefix) + 1, Len(VideosPrefix) + n)
            ELSE <<>>

\* index.js: throws Error("Formato invalido...") when there is no match.
FormatVimeoUrlIndex(s) ==
  LET m == VimeoMatch(s)
  IN IF m = <<>> THEN [threw |-> TRUE, url |-> <<>>]
     ELSE [threw |-> FALSE, url |-> PlayerPrefix \o m]

\* getVimeoPandaLinks.js: returns null (here <<>>) when there is no match.
FormatVimeoUrlLinks(s) ==
  LET m == VimeoMatch(s)
  IN IF m = <<>> THEN [threw |-> FALSE, url |-> <<>>]
     ELSE [threw |-> FALSE, url |-> PlayerPrefix \o m]

\* Inputs of the formatVimeoUrl specification.
RECURSIVE SeqsUpTo(_, _)
SeqsUpTo(S, n) ==
  IF n = 0 THEN {<<>>}
  ELSE LET shorter == SeqsUpTo(S, n - 1)
       IN shorter \cup {Append(s, c) : s \in shorter, c \in S}

PathPrefixes ==
  { VideosPrefix,
    <<"/", "v", "i", "d", "e", "o", "/">>,
    <<"/", "v", "i", "d", "e", "o", "s">>,
    <<"v", "i", "d", "e", "o", "s", "/">>,
    <<"a", "/", "v", "i", "d", "e", "o", "s", "/">>,
    <<"/", "V", "i", "d", "e", "o", "s", "/">>,
    <<>> }

Paths == {p \o b : p \in PathPrefixes, b \in SeqsUpTo(Chars, MaxIdLen)}

NoOut == [impl |-> None, threw |-> FALSE, url |-> <<>>]

IdleFormat == path = <<>> /\ fmtOut = NoOut
IdleDb == store = {} /\ dbClock = 0 /\ dbLog = <<>>
IdleResolve ==
  /\ fq = [name |-> None, parent |-> Null, reply |-> None]
  /\ fOut = [impl |-> None, threw |-> FALSE, id |-> Null]

IdleClient ==
  /\ cl = [fn |-> None, attempt |-> 0, phase |-> "idle", wait |-> 0, value |-> None]
  /\ clk = 0
  /\ hist = <<>>

NoVid == [url |-> Null, data |-> <<>>, i |-> 0, next |-> Null, folder |-> Null,
          loaded |-> FALSE, seen |-> <<>>]
NoLast == [op |-> None]
IdleTarget == pandaFolders = <<>> /\ pandaVideos = <<>>
IdleWalk ==
  /\ prog = None /\ run = 0 /\ pc = "idle" /\ stack = <<>> /\ vid = NoVid
  /\ folderMap = <<>> /\ faults = 0 /\ last = NoLast /\ ended = <<>> /\ conn = "closed"

NoSync == [phase |-> "idle"]
IdleSync == sync = NoSync

InitFormat ==
  /\ path \in Paths /\ fmtOut = NoOut
  /\ IdleDb /\ IdleResolve /\ IdleClient /\ IdleWalk /\ IdleSync /\ IdleTarget

ApplyFormatIndex ==
  /\ fmtOut.impl = None
  /\ fmtOut' = [impl |-> "index"] @@ FormatVimeoUrlIndex(path)
  /\ UNCHANGED <<path, notFormat>>

ApplyFormatLinks ==
  /\ fmtOut.impl = None
  /\ fmtOut' = [impl |-> "links"] @@ FormatVimeoUrlLinks(path)
  /\ UNCHANGED <<path, notFormat>>

NextFormat == ApplyFormatIndex \/ ApplyFormatLinks

SpecFormat == InitFormat /\ [][NextFormat]_vars

\* C4: an identifier "/videos/<digits>" yields exactly
\* "https://player.vimeo.com/video/<digits>"; any other identifier yields no
\* sourceVideoRef (index.js throws the format error, the links walker returns null).
DigitStrings == SeqsUpTo(Digits, MaxIdLen + 1) \ {<<>>}
IsVideosShape(s) == \E d \in DigitStrings : s = VideosPrefix \o d
C4_FormatExact ==
  fmtOut.impl # None =>
    /\ IsVideosShape(path) =>
         /\ ~fmtOut.threw
         /\ fmtOut.url = PlayerPrefix \o SubSeq(path, 9, Len(path))
    /\ ~IsVideosShape(path) =>
         /\ fmtOut.url = <<>>
         /\ fmtOut.threw = (fmtOut.impl = "index")
C4_Witness ==
  /\ fmtOut.impl = "index"
  /\ path = VideosPrefix \o <<"7", "0">>
  /\ fmtOut.url = PlayerPrefix \o <<"7", "0">>
C4_WitnessReject ==
  /\ fmtOut.impl = "links"
  /\ path = VideosPrefix \o <<"7", "a">>
  /\ fmtOut.url = <<>>

\* ------------------------------------------------------- the Mapping Store
\* Column values are sequences of tokens; SQL NULL (JS null) is the empty one.
DbNull == <<>>
JsUndef == <<Undefined>>

\* x ?? null
Nullish(x) == IF x = JsUndef \/ x = DbNull THEN DbNull ELSE x

RowsOf(st, key) == {r \in st : r.vimeo_video_id = key}

\* A faulty variant, for comparison: a plain INSERT, without ON DUPLICATE KEY UPDATE and without the key.
InsertFull(st, key, pid, ws, title, now) ==
  st \cup {[vimeo_video_id |-> key, panda_video_id |-> pid,
            panda_websocket_url |-> ws, title |-> title, updated_at |-> now]}

\* INSERT (vimeo_video_id, panda_video_id, panda_websocket_url, title) ...
\* ON DUPLICATE KEY UPDATE panda_video_id, panda_websocket_url, title, updated_at.
UpsertFull(st, key, pid, ws, title, now) ==
  IF RowsOf(st, key) # {}
    THEN {IF r.vimeo_video_id = key
            THEN [r EXCEPT !.panda_video_id = pid, !.panda_websocket_url = ws,
                           !.title = title, !.updated_at = now]
            ELSE r : r \in st}
    ELSE st \cup {[vimeo_video_id |-> key, panda_video_id |-> pid,
                   panda_websocket_url |-> ws, title |-> title, updated_at |-> now]}

\* INSERT (vimeo_video_id, panda_video_id, title) ...
\* ON DUPLICATE KEY UPDATE panda_video_id, title, updated_at: the column
\* panda_websocket_url is NULL in a new row and kept in an existing one.
UpsertLinks(st, key, pid, title, now) ==
  IF RowsOf(st, key) # {}
    THEN {IF r.vimeo_video_id = key
            THEN [r EXCEPT !.panda_video_id = pid, !.title = title, !.updated_at = now]
            ELSE r : r \in st}
    ELSE st \cup {[vimeo_video_id |-> key, panda_video_id |-> pid,
                   panda_websocket_url |-> DbNull, title |-> title, updated_at |-> now]}

\* saveVideoMapping(vimeoVideoId, pandaVideoId, pandaWebsocketUrl, title): the
\* store after the call, and whether formatVimeoUrl threw before pool.execute.
SaveVideoMapping(st, uri, pid, ws, title, now) ==
  LET f == FormatVimeoUrlIndex(uri)
  IN IF f.threw THEN [threw |-> TRUE, rows |-> st, key |-> <<>>]
     ELSE [threw |-> FALSE, key |-> f.url,
           rows |-> UpsertFull(st, f.url, Nullish(pid), Nullish(ws), Nullish(title), now)]

\* A faulty variant, for comparison: only a row with a panda_video_id counts as existing.
VimeoVideoMatched(st, ref) ==
  \E r \in st : r.vimeo_video_id = ref /\ r.panda_video_id # DbNull

\* SELECT 1 FROM vimeo_panda_videos WHERE vimeo_video_id = ? LIMIT 1; rows.length > 0
VimeoVideoExists(st, ref) == \E r \in st : r.vimeo_video_id = ref

\* formatPandaIdToUrl(videoId): the embed URL of a Target video.
EmbedPrefix == <<"https://player-vz-4cab7bf9-47f.tv.pandavideo.com.br/embed/?v=">>
FormatPandaIdToUrl(videoId) == EmbedPrefix \o videoId

\* What a statement leaves in the history.
Logged(key, pid, ws, title, by, runNo) ==
  [key |-> key, pid |-> pid, ws |-> ws, title |-> title, by |-> by, run |-> runNo]

\* Inputs of the store specification.
StoreUris == {VideosPrefix \o <<"7">>, VideosPrefix \o <<"0">>, <<"/", "a">>}
StoreRefs == {PlayerPrefix \o <<"7">>, PlayerPrefix \o <<"0">>}
StorePids == {<<"pA">>, <<"pB">>, JsUndef}
StoreWs == {<<"w1">>, JsUndef}
StoreTitles == {<<"t1">>, <<"t2">>}

InitStore ==
  /\ IdleDb /\ IdleFormat /\ IdleResolve /\ IdleClient /\ IdleWalk /\ IdleSync /\ IdleTarget

\* index.js: one call of saveVideoMapping; a call that throws in formatVimeoUrl
\* executes no statement.
StoreSave ==
  /\ dbClock < MaxWrites
  /\ \E uri \in StoreUris, pid \in StorePids, ws \in StoreWs, title \in StoreTitles :
       LET r == SaveVideoMapping(store, uri, pid, ws, title, dbClock + 1)
       IN IF r.threw
            THEN UNCHANGED dbVars
            ELSE /\ store' = r.rows
                 /\ dbClock' = dbClock + 1
                 /\ dbLog' = Append(dbLog,
                               Logged(r.key, Nullish(pid), Nullish(ws), title, "index", 0))
  /\ UNCHANGED notDb

\* getVimeoPandaLinks.js: one execution of the INSERT of processVideosInFolder.
StoreLinksInsert ==
  /\ dbClock < MaxWrites
  /\ \E ref \in StoreRefs, ext \in {<<"pA">>, <<"pB">>}, title \in StoreTitles :
       /\ store' = UpsertLinks(store, ref, FormatPandaIdToUrl(ext), title, dbClock + 1)
       /\ dbClock' = dbClock + 1
       /\ dbLog' = Append(dbLog, Logged(ref, FormatPandaIdToUrl(ext), <<None>>, title, "links", 0))
  /\ UNCHANGED notDb

NextStore == StoreSave \/ StoreLinksInsert

SpecStore == InitStore /\ [][NextStore]_vars

\* The most recent statement executed for a key, 0 when there is none.
LastWriteIx(key) ==
  LET ix == {i \in 1..Len(dbLog) : dbLog[i].key = key}
  IN IF ix = {} THEN 0 ELSE CHOOSE i \in ix : \A j \in ix : j <= i

\* C3: upsert law. After any sequence of mapping writes there is at most one
\* row per sourceVideoRef, and its targetVideoId, title and (where the
\* statement writes it) targetStreamingRef are those of the latest write.
C3_UpsertLaw ==
  \A key \in {dbLog[i].key : i \in 1..Len(dbLog)} \cup {r.vimeo_video_id : r \in store} :
    /\ Cardinality(RowsOf(store, key)) <= 1
    /\ LastWriteIx(key) # 0 =>
         \E r \in RowsOf(store, key) :
           LET w == dbLog[LastWriteIx(key)]
           IN /\ r.panda_video_id = w.pid
              /\ r.title = w.title
              /\ w.by = "index" => r.panda_websocket_url = w.ws
C3_Witness ==
  \E i, j \in 1..Len(dbLog) :
    /\ i < j /\ dbLog[i].key = dbLog[j].key /\ dbLog[i].pid # dbLog[j].pid
    /\ Cardinality(store) = 1

\* ---------------------------------------------------------- findPandaFolder
\* A faulty variant, for comparison: the parents compared by falsiness of the requested one only.
ParentMatchesLoose(fParent, parentFolderId) ==
  \/ fParent = parentFolderId
  \/ parentFolderId \in {Null, Undefined}

\* f.parent_folder_id === parentFolderId ||
\*   (f.parent_folder_id == null && parentFolderId == null)
\* (x == null holds of null and of undefined, an absent property).
ParentMatches(fParent, parentFolderId) ==
  \/ fParent = parentFolderId
  \/ (fParent \in {Null, Undefined} /\ parentFolderId \in {Null, Undefined})

FolderMatches(f, name, parentFolderId) ==
  f.name = name /\ ParentMatches(f.parent_folder_id, parentFolderId)

\* data.folders.find(...): the first folder of the list that matches; its id, or null.
FindInFolders(folders, name, parentFolderId) ==
  LET hits == {i \in 1..Len(folders) : FolderMatches(folders[i], name, parentFolderId)}
  IN IF hits = {} THEN Null
     ELSE folders[CHOOSE i \in hits : \A j \in hits : i <= j].id

\* What GET /folders may answer: the folder list, a body without a folders
\* array, or a failed request.
FolderReplies == {"ok", "malformed", "error"}

\* index.js findPandaFolder: safeGet inside try/catch; a failed request and a
\* body without folders both give null.
FindPandaFolderIndex(reply, folders, name, parentFolderId) ==
  IF reply = "ok"
    THEN [threw |-> FALSE, id |-> FindInFolders(folders, name, parentFolderId)]
    ELSE [threw |-> FALSE, id |-> Null]

\* getVimeoPandaLinks.js findPandaFolder: no try/catch, the failed request
\* propagates; res.data?.folders?.find gives undefined, hence null, without folders.
FindPandaFolderLinks(reply, folders, name, parentFolderId) ==
  CASE reply = "ok" -> [threw |-> FALSE, id |-> FindInFolders(folders, name, parentFolderId)]
    [] reply = "malformed" -> [threw |-> FALSE, id |-> Null]
    [] OTHER -> [threw |-> TRUE, id |-> Null]

\* Inputs of the findPandaFolder specification: lists of folders with distinct ids.
FolderNames == {"Foo", "foo"}
FolderParents == {Null, Undefined, "p1", "p2"}
FolderIds == <<"f1", "f2", "f3", "f4">>

RECURSIVE FolderLists(_)
FolderLists(n) ==
  IF n = 0 THEN {<<>>}
  ELSE LET shorter == FolderLists(n - 1)
       IN shorter \cup
          {Append(l, [id |-> FolderIds[Len(l) + 1], name |-> nm, parent_folder_id |-> pa]) :
             l \in {x \in shorter : Len(x) = n - 1}, nm \in FolderNames, pa \in FolderParents}

NoFind == [impl |-> None, threw |-> FALSE, id |-> Null]

InitResolve ==
  /\ pandaFolders \in FolderLists(MaxFolders)
  /\ fq \in [name : FolderNames, parent : {Null, "p1", "p2"}, reply : FolderReplies]
  /\ fOut = NoFind
  /\ IdleFormat /\ IdleDb /\ IdleClient /\ IdleWalk /\ IdleSync /\ pandaVideos = <<>>

\* One call findPandaFolder(name, parentFolderId) of index.js.
ApplyFindIndex ==
  /\ fOut.impl = None
  /\ fOut' = [impl |-> "index"] @@
              FindPandaFolderIndex(fq.reply, pandaFolders, fq.name, fq.parent)
  /\ UNCHANGED <<fq, pandaFolders, notResolve>>

\* One call findPandaFolder(name, parentFolderId) of getVimeoPandaLinks.js.
ApplyFindLinks ==
  /\ fOut.impl = None
  /\ fOut' = [impl |-> "links"] @@
              FindPandaFolderLinks(fq.reply, pandaFolders, fq.name, fq.parent)
  /\ UNCHANGED <<fq, pandaFolders, notResolve>>

NextResolve == ApplyFindIndex \/ ApplyFindLinks

SpecResolve == InitResolve /\ [][NextResolve]_vars

\* C6: folder resolution is exact-match. The id returned for (name, Y) is never
\* the id of a folder with another name or with a parent X that differs from Y;
\* a null Y matches only a null or absent X.
SameParent(x, y) ==
  IF y = Null THEN x \in {Null, Undefined} ELSE x = y
RetryAfterSecs == {0, 2}
Replies ==
  {[kind |-> "ok", has |-> FALSE, ra |-> 0]}
  \cup {[kind |-> "429", has |-> TRUE, ra |-> r] : r \in RetryAfterSecs}
  \cup {[kind |-> "429", has |-> FALSE, ra |-> 0]}
  \cup {[kind |-> k, has |-> FALSE, ra |-> 0] : k \in {"conn", "other"}}

SafeRetry == 3
VimeoRetries == 5

\* safeGet, the body of the loop for attempt = 1..retry: return res.data; on 429
\* wait retry-after * 1000 when the header is there, else 2000 * attempt, and
\* continue; otherwise throw on the last attempt, else wait 1000 * attempt.
SafeGetStep(attempt, reply, retry) ==
  CASE reply.kind = "ok" -> [act |-> "return", wait |-> 0]
    [] reply.kind = "429" ->
         [act |-> "sleep", wait |-> IF reply.has THEN reply.ra * 1000 ELSE 2000 * attempt]
    [] OTHER ->
         IF attempt = retry THEN [act |-> "throw", wait |-> 0]
         ELSE [act |-> "sleep", wait |-> 1000 * attempt]

\* safePost: the same loop around client.post.
SafePostStep(attempt, reply, retry) ==
  CASE reply.kind = "ok" -> [act |-> "return", wait |-> 0]
    [] reply.kind = "429" ->
         [act |-> "sleep", wait |-> IF reply.has THEN reply.ra * 1000 ELSE 2000 * attempt]
    [] OTHER ->
         IF attempt = retry THEN [act |-> "throw", wait |-> 0]
         ELSE [act |-> "sleep", wait |-> 1000 * attempt]

\* A faulty variant, for comparison: the 429 wait without the attempt factor.
VimeoRetryStepFlat(attempt, reply) ==
  CASE reply.kind = "ok" -> [act |-> "return", wait |-> 0]
    [] reply.kind = "429" ->
         [act |-> "sleep", wait |-> (IF reply.has THEN reply.ra ELSE 5) * 1000]
    [] reply.kind = "conn" -> [act |-> "sleep", wait |-> 2000 * (attempt + 1)]
    [] OTHER -> [act |-> "throw", wait |-> 0]

\* axiosVimeoRetry, the body of the loop for attempt = 0..retries-1: on 429 wait
\* parseInt(retry-after || '5') * 1000 * (attempt + 1); on ECONNRESET/ETIMEDOUT
\* wait 2000 * (attempt + 1); any other error is rethrown.
VimeoRetryStep(attempt, reply) ==
  CASE reply.kind = "ok" -> [act |-> "return", wait |-> 0]
    [] reply.kind = "429" ->
         [act |-> "sleep",
          wait |-> (IF reply.has THEN reply.ra ELSE 5) * 1000 * (attempt + 1)]
    [] reply.kind = "conn" -> [act |-> "sleep", wait |-> 2000 * (attempt + 1)]
    [] OTHER -> [act |-> "throw", wait |-> 0]

ClientFns == {"safeGet", "safePost", "axiosVimeoRetry"}
FirstAttempt(fn) == IF fn = "axiosVimeoRetry" THEN 0 ELSE 1
StepOf(fn, attempt, reply) ==
  CASE fn = "safeGet" -> SafeGetStep(attempt, reply, SafeRetry)
    [] fn = "safePost" -> SafePostStep(attempt, reply, SafeRetry)
    [] OTHER -> VimeoRetryStep(attempt, reply)

\* A faulty variant, for comparison: the loop allows one attempt more.
LoopGoesOnOneMore(fn, attempt) ==
  IF fn = "axiosVimeoRetry" THEN attempt <= VimeoRetries ELSE attempt <= SafeRetry + 1

\* The loop condition: attempt <= retry, attempt < retries.
LoopGoesOn(fn, attempt) ==
  IF fn = "axiosVimeoRetry" THEN attempt < VimeoRetries ELSE attempt <= SafeRetry

\* What follows the loop: safeGet and safePost fall off the end of the function
\* (the call returns undefined), axiosVimeoRetry throws "Falha ao acessar Vimeo".
AfterLoop(fn) ==
  IF fn = "axiosVimeoRetry" THEN [phase |-> "threw", value |-> None]
  ELSE [phase |-> "returned", value |-> Undefined]

InitClient ==
  /\ cl \in {[fn |-> f, attempt |-> FirstAttempt(f), phase |-> "request",
               wait |-> 0, value |-> None] : f \in ClientFns}
  /\ clk = 0
  /\ hist = <<>>
  /\ IdleFormat /\ IdleDb /\ IdleResolve /\ IdleWalk /\ IdleSync /\ IdleTarget

\* One attempt: the request is sent and answered.
ClientAttempt ==
  /\ cl.phase = "request"
  /\ \E reply \in Replies :
       LET st == StepOf(cl.fn, cl.attempt, reply)
       IN /\ hist' = Append(hist, [reply |-> reply, at |-> clk])
          /\ cl' = CASE st.act = "return" ->
                          [cl EXCEPT !.phase = "returned", !.value = "body"]
                      [] st.act = "throw" -> [cl EXCEPT !.phase = "threw"]
                      [] OTHER -> [cl EXCEPT !.phase = "sleeping", !.wait = st.wait]
  /\ UNCHANGED <<clk, notClient>>

\* The timer of the backoff fires; the loop counter advances.
ClientWake ==
  /\ cl.phase = "sleeping"
  /\ clk' = clk + cl.wait
  /\ cl' = IF LoopGoesOn(cl.fn, cl.attempt + 1)
             THEN [cl EXCEPT !.phase = "request", !.attempt = cl.attempt + 1, !.wait = 0]
             ELSE [cl EXCEPT !.phase = AfterLoop(cl.fn).phase,
                             !.value = AfterLoop(cl.fn).value,
                             !.attempt = cl.attempt + 1, !.wait = 0]
  /\ UNCHANGED <<hist, notClient>>

NextClient == ClientAttempt \/ ClientWake

SpecClient == InitClient /\ [][NextClient]_vars

\* The whole call as its caller sees it, for a sequence of replies: "body",
\* "undefined" (safeGet/safePost fell off the loop) or "threw".
RECURSIVE ClientRun(_, _, _)
ClientRun(fn, attempt, replies) ==
  IF ~LoopGoesOn(fn, attempt)
    THEN IF AfterLoop(fn).phase = "threw" THEN "threw" ELSE Undefined
    ELSE LET st == StepOf(fn, attempt, Head(replies))
         IN CASE st.act = "return" -> "body"
              [] st.act = "throw" -> "threw"
              [] OTHER -> ClientRun(fn, attempt + 1, Tail(replies))

ReplyKinds == {r \in Replies : ~r.has}
ReplySeqs == [1..VimeoRetries -> ReplyKinds]
SafeGetOutcomes == {ClientRun("safeGet", 1, rs) : rs \in ReplySeqs}
SafePostOutcomes == {ClientRun("safePost", 1, rs) : rs \in ReplySeqs}
VimeoRetryOutcomes == {ClientRun("axiosVimeoRetry", 0, rs) : rs \in ReplySeqs}

\* ------------------------------------------------------------ the Source
\* A Source library: what the Vimeo API answers at each URL.  A folder entry
\* carries folder.name, folder.uri and the URIs of its videos and items
\* connections (Null when the connection is absent); a video entry carries
\* name, uri and its download renditions.
Fold(name, uri, videos, items) ==
  [name |-> name, uri |-> uri, videos |-> videos, items |-> items]
Vid(name, uri, download) == [name |-> name, uri |-> uri, download |-> download]

FolderA == Fold("A", "/f/A", "/f/A/videos", "/f/A/items")
FolderA1 == Fold("A1", "/f/A1", "/f/A1/videos", "/f/A1/items")
FolderB1 == Fold("B1", "/f/B1", Null, Null)
FolderNoUri == Fold("X", Undefined, Null, Null)
FolderB == Fold("B", "/f/B", "/f/B/videos", "/f/B/items")

V1 == Vid("t1", VideosPrefix \o <<"7">>,
          <<[width |-> 640, link |-> "dl1-sd"], [width |-> 1280, link |-> "dl1-hd"]>>)
VBad == Vid("tbad", <<"/", "a">>, <<[width |-> 640, link |-> "dlbad"]>>)
V2 == Vid("t2", VideosPrefix \o <<"0">>, <<[width |-> 640, link |-> "dl2"]>>)
V3 == Vid(Undefined, VideosPrefix \o <<"7", "0">>, <<>>)

RootUri == "/users/me/folders/root"

SourcePage(url) ==
  CASE url = RootUri -> [data |-> <<FolderA>>, next |-> "/root?page=2"]
    [] url = "/root?page=2" -> [data |-> <<>>, next |-> "/root?page=3"]
    [] url = "/root?page=3" -> [data |-> <<FolderNoUri, FolderB>>, next |-> Null]
    [] url = "/f/A/videos" -> [data |-> <<V1, VBad>>, next |-> "/f/A/videos?page=2"]
    [] url = "/f/A/videos?page=2" -> [data |-> <<>>, next |-> "/f/A/videos?page=3"]
    [] url = "/f/A/videos?page=3" -> [data |-> <<V2>>, next |-> Null]
    [] url = "/f/A/items" -> [data |-> <<FolderA1>>, next |-> Null]
    [] url = "/f/B/videos" -> [data |-> <<V3>>, next |-> Null]
    [] url = "/f/B/items" -> [data |-> <<FolderA1, FolderB1>>, next |-> Null]
    [] url = "/f/A1/videos" -> [data |-> <<>>, next |-> Null]
    [] url = "/f/A1/items" -> [data |-> <<>>, next |-> Null]
    [] OTHER -> [data |-> <<>>, next |-> Null]

\* ------------------------------------------------------------ the Target
\* Folder lists the Target may hold when a run starts: none of the Source's
\* folders, or all of them (with a namesake of A1 at the root listed first).
TargetFull ==
  << [id |-> "tA", name |-> "A", parent_folder_id |-> Null],
     [id |-> "tX", name |-> "A1", parent_folder_id |-> Undefined],
     [id |-> "tA1", name |-> "A1", parent_folder_id |-> "tA"],
     [id |-> "tB", name |-> "B", parent_folder_id |-> Null] >>
TargetStarts == {<<>>, TargetFull}

\* Videos the Target may hold: V1 and V3 have a counterpart, V2 has none,
\* VBad has one or none.
PandaVideosBase ==
  << [folder_id |-> "tA", title |-> "t1", id |-> <<"pv1">>,
      video_external_id |-> <<"e1">>, websocket_url |-> <<"ws1">>, origin |-> "dl1-hd"],
     [folder_id |-> "tA", title |-> "t1", id |-> <<"pv1b">>,
      video_external_id |-> <<"e1b">>, websocket_url |-> <<"ws1b">>, origin |-> "dl1-sd"],
     [folder_id |-> "tB", title |-> "sem titulo", id |-> <<"pv3">>,
      video_external_id |-> <<"e3">>, websocket_url |-> JsUndef, origin |-> "dl3"] >>
PandaVideoBad ==
  [folder_id |-> "tA", title |-> "tbad", id |-> <<"pvbad">>,
   video_external_id |-> <<"ebad">>, websocket_url |-> <<"wsbad">>, origin |-> "dlbad"]
TargetVideoStarts == {PandaVideosBase, Append(PandaVideosBase, PandaVideoBad)}

FirstOf(hits) == CHOOSE i \in hits : \A j \in hits : i <= j

\* getVimeoPandaLinks.js findPandaVideoByTitle: GET /videos?folder_id=&title=,
\* res.data?.videos?.[0] || null.
FindPandaVideoByTitle(videos, folderId, title) ==
  LET hits == {i \in 1..Len(videos) :
                 videos[i].folder_id = folderId /\ videos[i].title = title}
  IN IF hits = {} THEN <<>> ELSE <<videos[FirstOf(hits)]>>

\* index.js calls findPandaVideoByVimeoUrl(downloadUrl), which no file under
\* src/ defines: the Target video whose original URL is the download link, first
\* match wins, or null.
FindPandaVideoByVimeoUrl(videos, downloadUrl) ==
  LET hits == {i \in 1..Len(videos) : videos[i].origin = downloadUrl}
  IN IF hits = {} THEN <<>> ELSE <<videos[FirstOf(hits)]>>

\* video.name || 'sem titulo'
TitleOf(video) == IF video.name = Undefined THEN "sem titulo" ELSE video.name

\* index.js: video.download sorted by width, widest first (the sort is stable);
\* the link of the first, null without renditions.
DownloadUrl(video) ==
  LET d == video.download
  IN IF Len(d) = 0 THEN Null
     ELSE d[FirstOf({i \in 1..Len(d) : \A j \in 1..Len(d) : d[j].width <= d[i].width})].link

\* ------------------------------------------------- reconciling one video
Outcome(threw, cause, rows, log, queried, found, existed, hit) ==
  [threw |-> threw, cause |-> cause, rows |-> rows, log |-> log, queried |-> queried,
   found |-> found, existed |-> existed, hit |-> hit]

\* index.js processVideosInFolder, the body of the loop over data.data: skip a
\* video without download link; ask the Target; on a match saveVideoMapping.
\* fault: the remote call that fails in this pass ("target", "dbWrite"), if any.
ReconcileIndex(video, videos, st, now, runNo, fault) ==
  LET title == TitleOf(video)
      downloadUrl == DownloadUrl(video)
  IN IF downloadUrl = Null
       THEN Outcome(FALSE, "nodownload", st, <<>>, FALSE, FALSE, FALSE, FALSE)
     ELSE IF fault = "target"
       THEN Outcome(TRUE, "target", st, <<>>, TRUE, FALSE, FALSE, TRUE)
     ELSE LET existing == FindPandaVideoByVimeoUrl(videos, downloadUrl)
          IN IF existing = <<>>
               THEN Outcome(FALSE, "nomatch", st, <<>>, TRUE, FALSE, FALSE, FALSE)
             ELSE LET sv == SaveVideoMapping(st, video.uri, existing[1].id,
                                             existing[1].websocket_url, <<title>>, now)
                  IN IF sv.threw
                       THEN Outcome(TRUE, "format", st, <<>>, TRUE, TRUE, FALSE, FALSE)
                     ELSE IF fault = "dbWrite"
                       THEN Outcome(TRUE, "db", st, <<>>, TRUE, TRUE, FALSE, TRUE)
                     ELSE Outcome(FALSE, "saved", sv.rows,
                                  <<Logged(sv.key, Nullish(existing[1].id),
                                           Nullish(existing[1].websocket_url),
                                           <<title>>, "index", runNo)>>,
                                  TRUE, TRUE, FALSE, FALSE)

\* getVimeoPandaLinks.js processVideosInFolder, the body of the loop over
\* data.data: skip an unparseable uri; skip a video the store already has; ask
\* the Target by folder and title; on a match run the INSERT.
ReconcileLinks(video, videos, pandaFolderId, st, now, runNo, fault) ==
  LET title == TitleOf(video)
      vimeoVideoUrl == FormatVimeoUrlLinks(video.uri).url
  IN IF vimeoVideoUrl = <<>>
       THEN Outcome(FALSE, "format", st, <<>>, FALSE, FALSE, FALSE, FALSE)
     ELSE IF fault = "dbRead"
       THEN Outcome(TRUE, "db", st, <<>>, FALSE, FALSE, FALSE, TRUE)
     ELSE IF VimeoVideoExists(st, vimeoVideoUrl)
       THEN Outcome(FALSE, "exists", st, <<>>, FALSE, FALSE, TRUE, FALSE)
     ELSE IF fault = "target"
       THEN Outcome(TRUE, "target", st, <<>>, TRUE, FALSE, FALSE, TRUE)
     ELSE LET pandaVideo == FindPandaVideoByTitle(videos, pandaFolderId, title)
          IN IF pandaVideo = <<>>
               THEN Outcome(FALSE, "nomatch", st, <<>>, TRUE, FALSE, FALSE, FALSE)
             ELSE IF fault = "dbWrite"
               THEN Outcome(TRUE, "db", st, <<>>, TRUE, TRUE, FALSE, TRUE)
             ELSE LET pandaVideoUrl == FormatPandaIdToUrl(pandaVideo[1].video_external_id)
                  IN Outcome(FALSE, "saved",
                             UpsertLinks(st, vimeoVideoUrl, pandaVideoUrl, <<title>>, now),
                             <<Logged(vimeoVideoUrl, pandaVideoUrl, <<None>>, <<title>>,
                                      "links", runNo)>>,
                             TRUE, TRUE, FALSE, FALSE)

ReconcileFaults == {"none", "dbRead", "target", "dbWrite"}

\* --------------------------------------------------------------- the walker
\* One processFolder call: the url of the page to fetch or being looped over,
\* pandaParentId, the page's data array, the index of the entry being visited,
\* paging.next, the Target id the entry resolved to, and (history) the pages
\* the call has fetched.
NewFrame(url, parent) ==
  [url |-> url, parent |-> parent, data |-> <<>>, i |-> 0, next |-> Null,
   resolved |-> Null, loaded |-> FALSE, seen |-> <<>>]
NewVid(url, folderId) ==
  [url |-> url, data |-> <<>>, i |-> 0, next |-> Null, folder |-> folderId,
   loaded |-> FALSE, seen |-> <<>>]
SeenPage(url, page) == [url |-> url, len |-> Len(page.data), next |-> page.next]

Top(stk) == stk[Len(stk)]
Pop(stk) == SubSeq(stk, 1, Len(stk) - 1)
Go(p, stk, v) == [pc |-> p, stack |-> stk, vid |-> v]

\* processFolder: the end of the body of `for (const folder of data.data)`:
\* the next entry, else `url = data.paging?.next || null; while (url)`, else the
\* call returns to the entry of the caller that recursed into it.
RECURSIVE Resume(_)
Resume(stk) ==
  IF stk = <<>> THEN Go("Done", <<>>, NoVid)
  ELSE LET n == Len(stk)
           f == stk[n]
       IN IF f.i < Len(f.data)
            THEN Go("VisitingFolder", [stk EXCEPT ![n].i = f.i + 1, ![n].resolved = Null], NoVid)
          ELSE IF f.next # Null
            THEN Go("ListingFolderPage",
                    [stk EXCEPT ![n].url = f.next, ![n].data = <<>>, ![n].i = 0,
                                ![n].next = Null, ![n].resolved = Null, ![n].loaded = FALSE],
                    NoVid)
          ELSE Resume(Pop(stk))

\* A faulty variant, for comparison: the next sibling before the sub-folders.
AfterVideosSiblingsFirst(stk) == Resume(stk)

\* processFolder after processVideosInFolder: recurse into the items connection
\* with the resolved Target id as parent, when the folder has one.
AfterVideos(stk) ==
  LET f == Top(stk)
      subfoldersUri == f.data[f.i].items
  IN IF subfoldersUri # Null
       THEN Go("ListingFolderPage", Append(stk, NewFrame(subfoldersUri, f.resolved)), NoVid)
       ELSE Resume(stk)

\* processVideosInFolder(folder, pandaFolderId): returns at once without a
\* videos connection.
EnterFolder(stk, pandaFolderId) ==
  LET n == Len(stk)
      stk2 == [stk EXCEPT ![n].resolved = pandaFolderId]
      videosUri == stk[n].data[stk[n].i].videos
  IN IF videosUri = Null THEN AfterVideos(stk2)
     ELSE Go("ListingVideoPage", stk2, NewVid(videosUri, pandaFolderId))

\* A faulty variant, for comparison: an empty data array ends the listing of videos.
ResumeVideosStopsOnEmpty(stk, v) ==
  IF v.i < Len(v.data) THEN Go("Reconciling", stk, [v EXCEPT !.i = v.i + 1])
  ELSE IF v.next # Null /\ Len(v.data) > 0
    THEN Go("ListingVideoPage", stk,
            [v EXCEPT !.url = v.next, !.data = <<>>, !.i = 0, !.next = Null, !.loaded = FALSE])
  ELSE AfterVideos(stk)

\* processVideosInFolder: the end of the body of `for (const video of data.data)`.
ResumeVideos(stk, v) ==
  IF v.i < Len(v.data) THEN Go("Reconciling", stk, [v EXCEPT !.i = v.i + 1])
  ELSE IF v.next # Null
    THEN Go("ListingVideoPage", stk,
            [v EXCEPT !.url = v.next, !.data = <<>>, !.i = 0, !.next = Null, !.loaded = FALSE])
  ELSE AfterVideos(stk)

\* A faulty variant, for comparison: a body without data array is an error.
PageKindStrict(outcome, body) ==
  CASE outcome = "threw" -> "threw"
    [] outcome = Undefined -> "nodata"
    [] OTHER -> IF body = "page" THEN "page" ELSE "threw"

\* What a page request gives its caller: the page, a body without data array
\* (or safeGet's undefined), or an exception.
PageKind(outcome, body) ==
  CASE outcome = "threw" -> "threw"
    [] outcome = Undefined -> "nodata"
    [] OTHER -> IF body = "page" THEN "page" ELSE "nodata"
PageOutcomes(p) == IF p = "index" THEN SafeGetOutcomes ELSE VimeoRetryOutcomes
\* What came back, before the caller looks at it.
Received(outcome, body) == IF outcome = "body" THEN body ELSE outcome
PageKinds(p) ==
  {PageKind(o, b) : o \in (IF p = "index" THEN SafeGetOutcomes ELSE VimeoRetryOutcomes),
                    b \in {"page", "malformed"}}

Faulty(isFault) == IF isFault THEN faults < MaxFaults /\ faults' = faults + 1
                   ELSE faults' = faults

StoreStarts ==
  { {},
    {[vimeo_video_id |-> PlayerPrefix \o <<"7">>, panda_video_id |-> DbNull,
      panda_websocket_url |-> DbNull, title |-> <<"t1">>, updated_at |-> 0]} }

Init ==
  /\ prog \in {"index", "links"}
  /\ run = 1
  /\ pc = "ListingFolderPage"
  /\ stack = <<NewFrame(RootUri, Null)>>
  /\ vid = NoVid
  /\ folderMap = <<>>
  /\ faults = 0
  /\ last = NoLast
  /\ ended = <<>>
  /\ conn = "open"
  /\ pandaFolders \in TargetStarts
  /\ pandaVideos \in TargetVideoStarts
  /\ store \in StoreStarts
  /\ dbClock = 0
  /\ dbLog = <<>>
  /\ IdleFormat /\ IdleResolve /\ IdleClient /\ IdleSync

\* The walker moves on.  When the outermost processFolder returns, run() of
\* getVimeoPandaLinks.js goes on to `await pool.end()`; run() of index.js only
\* logs and leaves the module's pool as it is.
Become(g) ==
  /\ pc' = g.pc /\ stack' = g.stack /\ vid' = g.vid
  /\ conn' = IF g.pc = "Done" /\ prog = "links" THEN "closed" ELSE conn

\* An exception leaves every call: index.js run() catches and logs it, the
\* links script catches it at run().catch(...); neither touches the pool.
Abort == pc' = "Aborted" /\ stack' = <<>> /\ vid' = NoVid /\ conn' = conn

\* A faulty variant, for comparison: the folder is entered without Target id.
SkipFolderMissing(stk) == EnterFolder(stk, Null)

\* getVimeoPandaLinks.js processFolder: `if (!pandaFolderId) { ...; continue; }`
SkipFolder(stk) == Resume(stk)

\* A faulty variant, for comparison: the cache keeps the latest entry only.
FolderMapSetOnly(map, uri, id) == (uri :> id)

\* A faulty variant, for comparison: the cache is never hit.
FolderMapHasNever(map, uri) == FALSE

\* folderMap.has(vimeoUri)
FolderMapHas(map, uri) == uri \in DOMAIN map

\* folderMap.set(vimeoUri, pandaFolderId)
FolderMapSet(map, uri, id) == (uri :> id) @@ map

\* processFolder: `const data = await safeGet(axiosVimeo, url)` (index.js),
\* `axiosVimeoRetry(url)` (links), and the test of data.data.
FetchFolderPage ==
  /\ pc = "ListingFolderPage"
  /\ \E o \in PageOutcomes(prog), b \in {"page", "malformed"} :
       LET n == Len(stack)
           page == SourcePage(stack[n].url)
           kind == PageKind(o, b)
       IN /\ Faulty(kind # "page")
          /\ last' = [op |-> "fetchFolders", kind |-> kind, url |-> stack[n].url,
                      got |-> Received(o, b),
                      len |-> Len(page.data), next |-> page.next, depth |-> n]
          /\ CASE kind = "threw" -> Abort
               [] kind = "nodata" -> Become(Resume(Pop(stack)))
               [] OTHER ->
                    Become(Resume([stack EXCEPT
                      ![n].data = page.data, ![n].next = page.next, ![n].i = 0,
                      ![n].loaded = TRUE,
                      ![n].seen = Append(stack[n].seen, SeenPage(stack[n].url, page))]))
  /\ UNCHANGED <<prog, run, ended, folderMap, pandaFolders, dbVars, notWalk>>

\* processFolder, the body of the loop up to the resolution of the folder:
\* skip an entry without uri; index.js uses folderMap on a hit, else
\* findPandaFolder and, without result, goes on to create the folder; the links
\* walker calls findPandaFolder and skips the folder without result.
VisitFolder ==
  /\ pc = "VisitingFolder"
  /\ LET f == Top(stack)
         folder == f.data[f.i]
         folderName == IF folder.name = Undefined THEN "sem nome" ELSE folder.name
     IN IF folder.uri = Undefined
          THEN /\ Become(Resume(stack))
               /\ last' = [op |-> "visit", how |-> "nouri"]
               /\ UNCHANGED <<folderMap, faults>>
        ELSE IF prog = "index" /\ FolderMapHas(folderMap, folder.uri)
          THEN /\ Become(EnterFolder(stack, folderMap[folder.uri]))
               /\ last' = [op |-> "visit", how |-> "cache"]
               /\ UNCHANGED <<folderMap, faults>>
        ELSE \E reply \in FolderReplies :
               LET r == IF prog = "index"
                          THEN FindPandaFolderIndex(reply, pandaFolders, folderName, f.parent)
                          ELSE FindPandaFolderLinks(reply, pandaFolders, folderName, f.parent)
               IN /\ Faulty(reply # "ok")
                  /\ last' = [op |-> "visit", how |-> "find", reply |-> reply, id |-> r.id]
                  /\ IF r.threw THEN Abort /\ UNCHANGED folderMap
                     ELSE IF r.id # Null
                       THEN /\ Become(EnterFolder(stack, r.id))
                            /\ folderMap' = IF prog = "index"
                                              THEN FolderMapSet(folderMap, folder.uri, r.id)
                                              ELSE folderMap
                     ELSE IF prog = "index"
                       THEN /\ Become(Go("CreatingFolder", stack, NoVid))
                            /\ UNCHANGED folderMap
                     ELSE Become(SkipFolder(stack)) /\ UNCHANGED folderMap
  /\ UNCHANGED <<prog, run, ended, pandaFolders, dbVars, notWalk>>

\* index.js createPandaFolder(folderName, pandaParentId) and what follows it:
\* POST /folders with name and, when truthy, parent_folder_id; an error or an
\* answer without id gives null and the folder is skipped.
CreateFolder ==
  /\ pc = "CreatingFolder"
  /\ LET f == Top(stack)
         folder == f.data[f.i]
         folderName == IF folder.name = Undefined THEN "sem nome" ELSE folder.name
         newId == "n" \o ToString(Len(pandaFolders) + 1)
     IN \E ok \in BOOLEAN :
          /\ Faulty(~ok)
          /\ last' = [op |-> "create", ok |-> ok, name |-> folderName, parent |-> f.parent]
          /\ IF ok
               THEN /\ pandaFolders' = Append(pandaFolders,
                         [id |-> newId, name |-> folderName, parent_folder_id |-> f.parent])
                    /\ folderMap' = FolderMapSet(folderMap, folder.uri, newId)
                    /\ Become(EnterFolder(stack, newId))
               ELSE /\ UNCHANGED <<pandaFolders, folderMap>>
                    /\ Become(Resume(stack))
  /\ UNCHANGED <<prog, run, ended, dbVars, notWalk>>

\* processVideosInFolder: the request of a page of videos and the test of data.data.
FetchVideoPage ==
  /\ pc = "ListingVideoPage"
  /\ \E o \in PageOutcomes(prog), b \in {"page", "malformed"} :
       LET page == SourcePage(vid.url)
           kind == PageKind(o, b)
       IN /\ Faulty(kind # "page")
          /\ last' = [op |-> "fetchVideos", kind |-> kind, url |-> vid.url,
                      got |-> Received(o, b),
                      len |-> Len(page.data), next |-> page.next, depth |-> Len(stack)]
          /\ CASE kind = "threw" -> Abort
               [] kind = "nodata" -> Become(AfterVideos(stack))
               [] OTHER ->
                    Become(ResumeVideos(stack,
                      [vid EXCEPT !.data = page.data, !.next = page.next, !.i = 0,
                                  !.loaded = TRUE,
                                  !.seen = Append(vid.seen, SeenPage(vid.url, page))]))
  /\ UNCHANGED <<prog, run, ended, folderMap, pandaFolders, dbVars, notWalk>>

\* processVideosInFolder: the body of the loop for one video.
ReconcileVideo ==
  /\ pc = "Reconciling"
  /\ \E fault \in ReconcileFaults :
       LET video == vid.data[vid.i]
           r == IF prog = "index"
                  THEN ReconcileIndex(video, pandaVideos, store, dbClock + 1, run, fault)
                  ELSE ReconcileLinks(video, pandaVideos, vid.folder, store, dbClock + 1, run, fault)
       IN /\ r.hit = (fault # "none")
          /\ Faulty(r.hit)
          /\ store' = r.rows
          /\ dbLog' = dbLog \o r.log
          /\ dbClock' = dbClock + Len(r.log)
          /\ last' = [op |-> "reconcile", uri |-> video.uri, before |-> store,
                      threw |-> r.threw, cause |-> r.cause, queried |-> r.queried,
                      found |-> r.found, existed |-> r.existed, wrote |-> Len(r.log)]
          /\ IF r.threw THEN Abort ELSE Become(ResumeVideos(stack, vid))
  /\ UNCHANGED <<prog, run, ended, folderMap, pandaFolders, notWalk>>

\* The script is started again: a new process, the same store and Target.
StartRun ==
  /\ pc \in {"Done", "Aborted"}
  /\ run < MaxRuns
  /\ run' = run + 1
  /\ pc' = "ListingFolderPage"
  /\ stack' = <<NewFrame(RootUri, Null)>>
  /\ vid' = NoVid
  /\ folderMap' = <<>>
  /\ last' = [op |-> "start"]
  /\ ended' = Append(ended, pc)
  /\ conn' = "open"
  /\ UNCHANGED <<prog, faults, pandaFolders, dbVars, notWalk>>

Next ==
  \/ FetchFolderPage
  \/ VisitFolder
  \/ CreateFolder
  \/ FetchVideoPage
  \/ ReconcileVideo
  \/ StartRun

Spec == Init /\ [][Next]_vars

\* ------------------------------------------------------- walker properties
\* The sourceVideoRef of a well-formed identifier.
RefOf(uri) == PlayerPrefix \o SubSeq(uri, Len(VideosPrefix) + 1, Len(uri))
Reconciled == last.op = "reconcile"

\* C1: idempotence. When every earlier run completed and no remote call failed,
\* a later run executes no INSERT/UPSERT for a video whose mapping an earlier run
\* wrote.
C1_Idempotent ==
  (faults = 0 /\ \A k \in 1..Len(ended) : ended[k] = "Done") =>
    \A i, j \in 1..Len(dbLog) :
      dbLog[i].run < dbLog[j].run => dbLog[i].key # dbLog[j].key

\* The links walker got as far as asking the store about the video.
AskedStore ==
  /\ Reconciled /\ prog = "links"
  /\ last.cause # "format"
  /\ ~(last.cause = "db" /\ ~last.queried)
ShortCircuited == ~last.queried /\ last.wrote = 0 /\ ~last.threw

\* C2 as stated: the links walker short-circuits (no Target query, no store
\* write) exactly when the store holds a row for the sourceVideoRef whose
\* targetVideoId is non-null; with a null targetVideoId it queries the Target.
C2_ShortCircuitIffMatched ==
  AskedStore =>
    (ShortCircuited <=>
       \E r \in RowsOf(last.before, RefOf(last.uri)) : r.panda_video_id # DbNull)

\* C2 amended: the links walker short-circuits exactly when the store holds a
\* row for the sourceVideoRef, whatever its targetVideoId; index.js never
\* consults the store and queries the Target for every video with a download
\* link.
C2_ShortCircuitIffRow ==
  /\ AskedStore =>
       (ShortCircuited <=> RowsOf(last.before, RefOf(last.uri)) # {})
  /\ (Reconciled /\ prog = "index" /\ last.cause # "nodownload") => last.queried
C2_Witness ==
  /\ AskedStore /\ ShortCircuited
  /\ \E r \in RowsOf(last.before, RefOf(last.uri)) : r.panda_video_id = DbNull

\* C5: a video whose identifier cannot be parsed is skipped locally: nothing is
\* written for it, and the walker goes on with the rest of the page and of the
\* folders; the format error never aborts the run.
C5_FormatErrorSkips ==
  (Reconciled /\ ~IsVideosShape(last.uri) /\ last.cause \notin {"target", "db"}) =>
    /\ ~last.threw
    /\ pc # "Aborted"
    /\ last.wrote = 0 /\ store = last.before

\* One call of a listing: no page is fetched after a page without next
\* reference; each further page is the one the previous page's next addresses;
\* after a page with a next reference, empty or not, the call is looping over
\* that page's entries or about to fetch the page next addresses.
PagesOk(c, fetching) ==
  /\ ~c.loaded => fetching
  /\ \A k \in 1..Len(c.seen) :
       IF c.seen[k].next = Null
         THEN k = Len(c.seen) /\ c.loaded
         ELSE /\ k < Len(c.seen) => c.seen[k + 1].url = c.seen[k].next
              /\ k = Len(c.seen) =>
                   \/ c.loaded /\ c.seen[k].len > 0 /\ c.i >= 1
                   \/ ~c.loaded /\ c.url = c.seen[k].next

\* Right after a page arrived: an empty page with a next reference leaves the
\* call about to fetch the page next addresses; an empty page without one ends
\* the call.
AfterFetchOk ==
  /\ (last.op = "fetchFolders" /\ last.kind = "page" /\ last.len = 0) =>
       IF last.next # Null
         THEN /\ pc = "ListingFolderPage" /\ Len(stack) = last.depth
              /\ Top(stack).url = last.next /\ ~Top(stack).loaded
         ELSE Len(stack) < last.depth
  /\ (last.op = "fetchVideos" /\ last.kind = "page" /\ last.len = 0) =>
       IF last.next # Null
         THEN pc = "ListingVideoPage" /\ vid.url = last.next /\ ~vid.loaded
         ELSE vid = NoVid

C8_OneUpsertPerMatch ==
  (Reconciled /\ last.cause # "db") =>
    /\ last.found =>
         /\ last.wrote = 1
         /\ dbLog[Len(dbLog)].pid # DbNull
         /\ \E r \in store : r.vimeo_video_id = dbLog[Len(dbLog)].key
                             /\ r.panda_video_id = dbLog[Len(dbLog)].pid
    /\ ~last.found => last.wrote = 0 /\ store = last.before

\* The wait between attempt i and attempt i + 1 of the call.
WaitAfter(i) == hist[i + 1].at - hist[i].at
RateLimited(i) == hist[i].reply.kind = "429" /\ hist[i].reply.has
ReturnsOn200 ==
  \A i \in 1..Len(hist) :
    hist[i].reply.kind = "ok" =>
      i = Len(hist) /\ cl.phase = "returned" /\ cl.value = "body"

\* C9 as stated: after attempt k fails with 429 and retry-after r, every client
\* waits at least r * k seconds before the next attempt, and a later 200 makes
\* the call return that body.
C9_BackoffTimesAttempt ==
  /\ \A i \in 1..(Len(hist) - 1) : RateLimited(i) => WaitAfter(i) >= hist[i].reply.ra * 1000 * i
  /\ ReturnsOn200

\* C9 amended: axiosVimeoRetry waits at least r * k seconds; safeGet and
\* safePost wait at least r seconds, whatever the attempt; a later 200 within
\* the attempt limit makes the call return that body.
C9_Backoff ==
  /\ \A i \in 1..(Len(hist) - 1) :
       RateLimited(i) =>
         WaitAfter(i) >= hist[i].reply.ra * 1000 * (IF cl.fn = "axiosVimeoRetry" THEN i ELSE 1)
  /\ ReturnsOn200
C9_Witness ==
  /\ cl.fn = "axiosVimeoRetry" /\ Len(hist) = 3
  /\ hist[2].reply = [kind |-> "429", has |-> TRUE, ra |-> 2]
  /\ WaitAfter(2) = 4000
  /\ hist[3].reply.kind = "ok" /\ cl.phase = "returned"

\* C10: no silent swallowing. A call of the request client that returns
\* returns the body of a successful attempt; when every attempt fails the
\* call throws.
C10_NoSilentSwallow ==
  cl.phase = "returned" => cl.value = "body" /\ hist[Len(hist)].reply.kind = "ok"

\* ------------------------------------------------- walker properties, cont.
\* The latest step made a request to the Source or the Target that failed with
\* an error, while visiting one folder or reconciling one video (the listing of
\* the root itself is left out).
ItemRequestFailed ==
  \/ last.op = "fetchVideos" /\ last.kind = "threw"
  \/ last.op = "fetchFolders" /\ last.kind = "threw" /\ last.depth > 1
  \/ last.op = "visit" /\ last.how = "find" /\ last.reply = "error"
  \/ last.op = "reconcile" /\ last.cause = "target"

\* C11: per-item failure isolation. A failed request made while visiting one
\* folder or reconciling one video skips only that item: it never aborts the run.
C11_FailureIsolation == ItemRequestFailed => pc # "Aborted"

\* C12: connection release. Whenever a run has ended, by completing the
\* traversal or by aborting on a fatal error, the pool the run used is closed.
C12_ConnectionReleased == pc \in {"Done", "Aborted"} => conn = "closed"

\* A page request was answered with a body that has no data array.
GotMalformed(op) == last'.op = op /\ last'.got = "malformed"

\* C13: a page response without the data array ends that page sequence and is
\* no error: nothing is raised, what earlier pages led to stays as it is, and
\* the walker goes on with what encloses the listing: after a listing of videos
\* the folder's sub-folders or the next sibling, after a listing of folders the
\* next entry of the enclosing level.
C13_MalformedStep ==
  /\ (pc = "ListingFolderPage" /\ GotMalformed("fetchFolders")) =>
       LET n == Len(stack)
       IN /\ pc' # "Aborted"
          /\ store' = store /\ dbLog' = dbLog
          /\ Len(stack') < n
          /\ IF n = 1 THEN pc' = "Done"
             ELSE LET par == stack[n - 1]
                  IN par.i < Len(par.data) =>
                       /\ pc' = "VisitingFolder" /\ Len(stack') = n - 1
                       /\ stack'[n - 1].data = par.data /\ stack'[n - 1].i = par.i + 1
  /\ (pc = "ListingVideoPage" /\ GotMalformed("fetchVideos")) =>
       LET n == Len(stack)
           f == stack[n]
       IN /\ pc' # "Aborted"
          /\ store' = store /\ dbLog' = dbLog
          /\ vid' = NoVid
          /\ IF f.data[f.i].items # Null
               THEN /\ pc' = "ListingFolderPage" /\ Len(stack') = n + 1
                    /\ stack'[n + 1].url = f.data[f.i].items
             ELSE f.i < Len(f.data) =>
                    /\ pc' = "VisitingFolder" /\ Len(stack') = n
                    /\ stack'[n].i = f.i + 1
C13_MalformedEndsLevel == [][C13_MalformedStep]_vars
C13_Witness ==
  /\ last.op = "fetchVideos" /\ last.got = "malformed"
  /\ Len(vid.seen) = 0 /\ pc = "ListingFolderPage"
  /\ Len(dbLog) > 0

\* The step just taken resolved the Target folder of the entry being visited.
ResolvedNow ==
  \/ last'.op = "visit" /\ last'.how = "cache"
  \/ last'.op = "visit" /\ last'.how = "find" /\ last'.id # Null /\ pc' # "Aborted"
  \/ last'.op = "create" /\ last'.ok

\* The walker enters the sub-folders of the entry the innermost call is at, with
\* the resolved Target id as parent, when the entry has an items connection.
IntoSubtree ==
  LET n == Len(stack)
      folder == stack[n].data[stack[n].i]
  IN folder.items # Null =>
       /\ pc' = "ListingFolderPage" /\ Len(stack') = n + 1
       /\ stack'[n + 1].url = folder.items /\ ~stack'[n + 1].loaded
       /\ stack'[n + 1].parent = stack'[n].resolved
       /\ stack'[n].i = stack[n].i /\ stack'[n].data = stack[n].data

\* C14: traversal order. Videos are reconciled in the order of their page;
\* folders are visited in the order of their page, depth-first: the Target
\* folder is resolved, then all videos of the folder are reconciled, then the
\* whole sub-tree is visited, and only then the next sibling or the next page of
\* the level.
C14_OrderStep ==
  LET n == Len(stack)
  IN /\ \* an enclosing call stands still while an inner call is active
        \A d \in 1..n : (d < n /\ d < Len(stack')) => stack'[d] = stack[d]
     /\ \* entries of a page one after the other, the next page after the last
        \A d \in 1..n :
          (d <= Len(stack') /\ stack[d].loaded /\ pc' # "Aborted") =>
            IF stack'[d].url = stack[d].url /\ stack'[d].loaded
              THEN /\ stack'[d].data = stack[d].data
                   /\ stack'[d].i \in {stack[d].i, stack[d].i + 1}
              ELSE /\ stack[d].i = Len(stack[d].data)
                   /\ stack'[d].url = stack[d].next /\ ~stack'[d].loaded
     /\ \* a call returns after the last entry of its last page (or a body without data)
        (Len(stack') < n /\ pc' # "Aborted" /\ stack[n].loaded) =>
          stack[n].i = Len(stack[n].data) /\ stack[n].next = Null
     /\ \* videos in page order, the next page after the last video
        (pc = "Reconciling" /\ pc' # "Aborted") =>
          IF vid.i < Len(vid.data)
            THEN pc' = "Reconciling" /\ vid'.data = vid.data /\ vid'.i = vid.i + 1
          ELSE IF vid.next # Null
            THEN pc' = "ListingVideoPage" /\ vid'.url = vid.next /\ stack' = stack
          ELSE vid' = NoVid
     /\ \* resolved: first the videos
        (pc \in {"VisitingFolder", "CreatingFolder"} /\ ResolvedNow) =>
          LET folder == stack[n].data[stack[n].i]
          IN IF folder.videos # Null
               THEN /\ pc' = "ListingVideoPage" /\ Len(stack') = n
                    /\ vid'.url = folder.videos /\ vid'.folder = stack'[n].resolved
                    /\ stack'[n].i = stack[n].i
               ELSE IntoSubtree
     /\ \* the videos done: the sub-tree before anything else
        (vid # NoVid /\ vid' = NoVid /\ pc' # "Aborted") => IntoSubtree
C14_TraversalOrder == [][C14_OrderStep]_vars
C14_Witness ==
  /\ pc = "ListingFolderPage" /\ Len(stack) = 2 /\ ~Top(stack).loaded
  /\ stack[1].data[stack[1].i] = FolderA /\ Top(stack).url = FolderA.items
  /\ last.op = "reconcile" /\ last.uri = V2.uri

\* C15: folder cache. Within one run an entry of the cache is never changed or
\* removed; an entry is added only by the step that first resolves (finds or
\* creates) the Target folder of the Source folder being visited, for that
\* folder's URI and with the resolved id; the cache maps each URI to one id.
C15_CacheStep ==
  run' = run =>
    /\ \A u \in DOMAIN folderMap : u \in DOMAIN folderMap' /\ folderMap'[u] = folderMap[u]
    /\ folderMap' # folderMap =>
         LET f == Top(stack)
             uri == f.data[f.i].uri
         IN /\ pc \in {"VisitingFolder", "CreatingFolder"} /\ ResolvedNow
            /\ uri \notin DOMAIN folderMap
            /\ DOMAIN folderMap' = DOMAIN folderMap \cup {uri}
            /\ folderMap'[uri] = (IF pc = "VisitingFolder" THEN last'.id
                                  ELSE pandaFolders'[Len(pandaFolders')].id)
    /\ (prog = "index" /\ pc \in {"VisitingFolder", "CreatingFolder"} /\ ResolvedNow) =>
         Top(stack).data[Top(stack).i].uri \in DOMAIN folderMap'
C15_CacheReadOnly == [][C15_CacheStep]_vars
C15_Witness ==
  /\ Cardinality(DOMAIN folderMap) >= 3
  /\ last.op = "create" /\ last.ok

\* C16: a cache hit skips the resolution. Visiting a Source folder whose URI is
\* in the cache lists no Target folders and creates none; the cached id is the
\* folder's id for its videos and the parent id for its sub-folders.
C16_CacheHitStep ==
  /\ (pc = "VisitingFolder" /\ prog = "index"
      /\ Top(stack).data[Top(stack).i].uri \in DOMAIN folderMap) =>
       LET n == Len(stack)
           folder == stack[n].data[stack[n].i]
           cached == folderMap[folder.uri]
       IN /\ last'.op = "visit" /\ last'.how = "cache"
          /\ pc' \notin {"CreatingFolder", "Aborted"}
          /\ pandaFolders' = pandaFolders /\ folderMap' = folderMap /\ faults' = faults
          /\ folder.videos # Null =>
               /\ pc' = "ListingVideoPage" /\ vid'.folder = cached
               /\ stack'[n].resolved = cached
          /\ (folder.videos = Null /\ folder.items # Null) =>
               /\ Len(stack') = n + 1 /\ stack'[n + 1].parent = cached
  /\ \* a sub-folder listing has the id its folder resolved to as parent
     \A d \in 2..Len(stack') : stack'[d].parent = stack'[d - 1].resolved
  /\ \* as long as the videos of a folder are listed, they go under its id
     vid' # NoVid => vid'.folder = Top(stack').resolved
C16_CacheHitSkipsResolution == [][C16_CacheHitStep]_vars
C16_Witness ==
  /\ last.op = "visit" /\ last.how = "cache" /\ pc = "ListingVideoPage"
  /\ Top(stack).data[Top(stack).i] = FolderA1 /\ Len(stack) = 2
  /\ stack[1].data[stack[1].i] = FolderB
  /\ vid.folder = folderMap[FolderA1.uri]

\* ------------------------------------------------- client properties, cont.
MaxAttempts(fn) == IF fn = "axiosVimeoRetry" THEN VimeoRetries ELSE SafeRetry

\* C17: attempt bound with a single counter. A call never makes more attempts
\* than its maximum (3 for safeGet and safePost, 5 for axiosVimeoRetry); every
\* failed attempt, 429 or not, advances the same counter, so the n-th attempt
\* is made with the counter at n and the call is over after the last one.
C17_AttemptBound ==
  /\ Len(hist) <= MaxAttempts(cl.fn)
  /\ cl.phase = "request" =>
       /\ cl.attempt = FirstAttempt(cl.fn) + Len(hist)
       /\ Len(hist) < MaxAttempts(cl.fn)
  /\ cl.phase = "sleeping" => cl.attempt = FirstAttempt(cl.fn) + Len(hist) - 1
  /\ (Len(hist) = MaxAttempts(cl.fn) /\ cl.phase # "sleeping") =>
       cl.phase \in {"returned", "threw"}
C17_Witness ==
  /\ cl.fn = "safeGet" /\ Len(hist) = 3 /\ cl.phase = "threw"
  /\ hist[1].reply.kind = "429" /\ hist[2].reply.kind = "429"
  /\ hist[3].reply.kind = "other"

\* ------------------------------------------------------------- termination
\* The script keeps running: every awaited call eventually returns or fails.
SpecLive == Init /\ [][Next]_vars /\ WF_vars(Next)

Runs == 1..MaxRuns
Ended == pc \in {"Done", "Aborted"}
\* The run was ended by a failing Mapping Store call.
StoreFailed == pc = "Aborted" /\ last.op = "reconcile" /\ last.cause = "db"

\* C18: termination of the walk. Every run, whatever the remote calls answer,
\* eventually reaches Done (a run ended by a failing store call set aside).
C18_ReachesDone ==
  \A r \in Runs : (run = r) ~> (run = r /\ (pc = "Done" \/ StoreFailed))

\* Every run ends: in Done, or aborted by an error.
RunEnds == \A r \in Runs : (run = r) ~> (run = r /\ Ended)
\* A run is only ever aborted by a step in which a call failed or threw.
AbortedByError ==
  pc = "Aborted" =>
    \/ last.op \in {"fetchFolders", "fetchVideos"} /\ last.kind = "threw"
    \/ last.op = "visit" /\ last.how = "find" /\ last.reply = "error"
    \/ last.op = "reconcile" /\ last.threw

\* ------------------------------------------------- walker properties, cont.
\* The Target holds a folder of exactly this name under exactly this parent.
TargetHolds(name, parent) ==
  \E i \in 1..Len(pandaFolders) :
    /\ pandaFolders[i].name = name
    /\ SameParent(pandaFolders[i].parent_folder_id, parent)

\* C19: no duplicate folder creation. The walker is about to send the creation
\* request for (name, parent) only when the Target holds no folder of that name
\* and parent; a failed or malformed listing leads to no such request.
C19_NoDuplicateCreation ==
  pc = "CreatingFolder" =>
    LET f == Top(stack)
        folder == f.data[f.i]
        folderName == IF folder.name = Undefined THEN "sem nome" ELSE folder.name
    IN ~TargetHolds(folderName, f.parent)

\* C20: the match-only walker is read-only on the Target: it sends no creating
\* or modifying request; a Source folder without matching Target folder is
\* skipped with its whole sub-tree (none of its videos is reconciled, nothing is
\* written, no sub-folder is listed) and the next sibling is visited.
C20_ReadOnlyStep ==
  prog = "links" =>
    /\ pandaFolders' = pandaFolders /\ pandaVideos' = pandaVideos
    /\ pc' # "CreatingFolder" /\ folderMap' = folderMap
    /\ (pc = "VisitingFolder" /\ pc' # "Aborted") =>
         LET n == Len(stack)
             f == stack[n]
             folder == f.data[f.i]
             folderName == IF folder.name = Undefined THEN "sem nome" ELSE folder.name
         IN (folder.uri # Undefined /\ ~TargetHolds(folderName, f.parent)) =>
              /\ vid' = NoVid /\ pc' \notin {"ListingVideoPage", "Reconciling"}
              /\ store' = store /\ dbLog' = dbLog
              /\ Len(stack') <= n
              /\ f.i < Len(f.data) =>
                   /\ pc' = "VisitingFolder" /\ Len(stack') = n
                   /\ stack'[n].data = f.data /\ stack'[n].i = f.i + 1
              /\ (f.i = Len(f.data) /\ f.next # Null) =>
                   /\ pc' = "ListingFolderPage" /\ Len(stack') = n
                   /\ stack'[n].url = f.next
C20_ReadOnlyMirror == [][C20_ReadOnlyStep]_vars
C20_Witness ==
  /\ prog = "links" /\ pandaFolders = <<>> /\ faults = 0
  /\ last.op = "visit" /\ last.how = "find" /\ last.id = Null
  /\ pc = "Done" /\ dbLog = <<>>

\* --------------------------------------------- syncPandaVideoIds (part_000)
\* A faulty variant, for comparison: the UPDATE without its WHERE clause.
SyncUpdateAll(st, key, pid) == {[r EXCEPT !.panda_video_id = pid] : r \in st}

\* UPDATE vimeo_panda_videos SET panda_video_id = ? WHERE vimeo_video_id = ?
SyncUpdate(st, key, pid) ==
  {IF r.vimeo_video_id = key THEN [r EXCEPT !.panda_video_id = pid] ELSE r : r \in st}

\* SELECT vimeo_video_id, panda_video_id, title ... WHERE panda_video_id IS NULL
SyncSelect(st) ==
  {[vimeo_video_id |-> r.vimeo_video_id, panda_video_id |-> r.panda_video_id,
    title |-> r.title] : r \in {x \in st : x.panda_video_id = DbNull}}

\* What GET /videos may answer: the list, a body without videos, a failed request.
SyncReplies == {"ok", "malformed", "error"}

\* part_000 findPandaVideoByTitle(row.folder_id, row.title): the SELECT has no
\* folder_id column, so the request carries the title only; the first video of
\* the answer, null without videos, and null (caught) when the request fails.
SyncFindPandaVideoByTitle(reply, videos, title) ==
  LET hits == {i \in 1..Len(videos) : <<videos[i].title>> = title}
  IN IF reply # "ok" \/ hits = {} THEN <<>> ELSE <<videos[FirstOf(hits)]>>

\* Stores the pass may find: up to one row per key, matched or pending.
SyncRefs == StoreRefs \cup {PlayerPrefix \o <<"7", "0">>}
SyncRowChoices ==
  {[vimeo_video_id |-> k, panda_video_id |-> p, panda_websocket_url |-> DbNull,
    title |-> t, updated_at |-> 0] :
     k \in SyncRefs, p \in {DbNull, <<"old">>}, t \in {<<"t1">>, <<"t2">>}}
SyncStores ==
  {S \in SUBSET SyncRowChoices :
     \A r1, r2 \in S : r1.vimeo_video_id = r2.vimeo_video_id => r1 = r2}

NoStep == [key |-> <<>>, reply |-> None, found |-> FALSE]

InitSync ==
  /\ store \in SyncStores
  /\ dbClock = 0 /\ dbLog = <<>>
  /\ pandaVideos \in TargetVideoStarts
  /\ pandaFolders = <<>>
  /\ sync = [phase |-> "start", todo |-> {}, begin |-> store, before |-> store,
             conn |-> "open", step |-> NoStep]
  /\ IdleFormat /\ IdleResolve /\ IdleClient /\ IdleWalk

\* The end of the pass: `await conn.end()`.
SyncEnd(s) == [s EXCEPT !.phase = "ended", !.conn = "closed"]

\* syncPandaVideoIds up to the loop: the SELECT and the test rows.length === 0.
\* A rejected conn.execute leaves the function at once.
SyncStart ==
  /\ sync.phase = "start"
  /\ \E dbOk \in BOOLEAN :
       LET rows == SyncSelect(store)
       IN sync' = IF ~dbOk THEN [sync EXCEPT !.phase = "threw"]
                  ELSE IF rows = {} THEN SyncEnd(sync)
                  ELSE [sync EXCEPT !.phase = "rows", !.todo = rows]
  /\ UNCHANGED <<dbVars, pandaVideos, notSync>>

\* The body of `for (const row of rows)` for one row, and the end of the pass
\* after the last one.  The SELECT has no ORDER BY: any row may come next.
SyncRow ==
  /\ sync.phase = "rows"
  /\ \E row \in sync.todo, reply \in SyncReplies, dbOk \in BOOLEAN :
       LET pandaVideo == SyncFindPandaVideoByTitle(reply, pandaVideos, row.title)
           rest == sync.todo \ {row}
           s == [sync EXCEPT !.todo = rest, !.before = store,
                             !.step = [key |-> row.vimeo_video_id, reply |-> reply,
                                       found |-> pandaVideo # <<>>]]
       IN /\ (pandaVideo = <<>>) => dbOk
          /\ IF pandaVideo # <<>> /\ ~dbOk
               THEN sync' = [s EXCEPT !.phase = "threw"] /\ store' = store
               ELSE /\ store' = IF pandaVideo = <<>> THEN store
                                ELSE SyncUpdate(store, row.vimeo_video_id,
                                       FormatPandaIdToUrl(pandaVideo[1].video_external_id))
                    /\ sync' = IF rest = {} THEN SyncEnd(s) ELSE s
  /\ UNCHANGED <<dbClock, dbLog, pandaVideos, notSync>>

NextSync == SyncStart \/ SyncRow

SpecSync == InitSync /\ [][NextSync]_vars

KeysOf(st) == {r.vimeo_video_id : r \in st}

\* C21: the frame of the sync pass. No row is inserted or deleted; a row that
\* had a targetVideoId when the pass started is unchanged; a row that was
\* pending is unchanged or differs in its targetVideoId only, which is then the
\* embed URL of a Target video of the row's title; a failed Target lookup
\* leaves the store as it was and the pass goes on with the remaining rows.
C21_SyncFrame ==
  sync.phase # "idle" =>
    /\ KeysOf(store) = KeysOf(sync.begin)
    /\ Cardinality(store) = Cardinality(sync.begin)
    /\ dbLog = <<>>
    /\ \A r0 \in sync.begin : r0.panda_video_id # DbNull => r0 \in store
    /\ \A r \in store :
         \/ r \in sync.begin
         \/ \E r0 \in sync.begin :
              /\ r0.vimeo_video_id = r.vimeo_video_id
              /\ r0.panda_video_id = DbNull /\ r.panda_video_id # DbNull
              /\ r = [r0 EXCEPT !.panda_video_id = r.panda_video_id]
              /\ \E i \in 1..Len(pandaVideos) :
                   /\ <<pandaVideos[i].title>> = r0.title
                   /\ r.panda_video_id = FormatPandaIdToUrl(pandaVideos[i].video_external_id)
    /\ ~sync.step.found => store = sync.before
    /\ sync.step.reply \in {"error", "malformed"} =>
         /\ ~sync.step.found /\ sync.phase # "threw"
         /\ sync.phase = (IF sync.todo = {} THEN "ended" ELSE "rows")
C21_Witness ==
  /\ sync.phase = "ended" /\ sync.step.reply = "error"
  /\ \E r \in store : r \notin sync.begin
  /\ \E r \in store : r \in sync.begin /\ r.panda_video_id = DbNull
                      /\ r.vimeo_video_id = sync.step.key /\ r.title = <<"t1">>
  /\ \E r \in sync.begin : r.panda_video_id # DbNull

====
